---- MODULE Spec2Model ----
(***************************************************************************)
(* A model of TurboParser's Parameters class (src/classifier/Parameters.h) *)
(* with its feature-label weight cache, and of the labeler's decoding      *)
(* contract (src/dependency_labeler/DependencyLabelerDecoder.h).           *)
(*                                                                         *)
(* Numbers.  A C++ double is modelled as an exact rational <<n, d>> in     *)
(* lowest terms with d > 0; the pair <<0, 0>> stands for any non-finite    *)
(* double (inf, -inf, NaN), which every arithmetic operation propagates.   *)
(* Rounding is not modelled: the sums below are formed in the same order   *)
(* as the code forms them.                                                 *)
(*                                                                         *)
(* Stores.  The SPV_* and SLPV_* operators model SparseParameterVector and *)
(* SparseLabeledParameterVector as the specification's sections 4.1 and    *)
(* 4.2 describe them; the decoder's dynamic program follows section 4.4.   *)
(***************************************************************************)
EXTENDS Integers, Sequences, FiniteSets, TLC

\* ------------------------------------------------------------------ bounds
NumFeatures == 2
NumLabels == 2
MaxLen == 2
MaxOps == 3
MaxSteps == 3
NumArcs == 3
NumHeads == 2

Features == 1..NumFeatures
Labels == 1..NumLabels

RECURSIVE SeqsUpTo(_, _)
SeqsUpTo(S, n) ==
  IF n = 0 THEN {<<>>}
  ELSE LET shorter == SeqsUpTo(S, n - 1)
       IN shorter \cup {Append(s, x) : s \in {q \in shorter : Len(q) = n - 1}, x \in S}

FeatureLists == SeqsUpTo(Features, MaxLen)
LabelLists == SeqsUpTo(Labels, MaxLen)

\* ----------------------------------------------------------------- doubles
Abs(x) == IF x < 0 THEN -x ELSE x

RECURSIVE GCD(_, _)
GCD(a, b) == IF b = 0 THEN a ELSE GCD(b, a % b)

NonFinite == <<0, 0>>
IsFinite(a) == a[2] # 0

Norm(n, d) ==
  LET g == GCD(Abs(n), Abs(d))
      s == IF d < 0 THEN -1 ELSE 1
  IN <<(s * n) \div g, (s * d) \div g>>

R(n) == <<n, 1>>
Zero == <<0, 1>>

RAdd(a, b) ==
  IF IsFinite(a) /\ IsFinite(b)
  THEN Norm(a[1] * b[2] + b[1] * a[2], a[2] * b[2])
  ELSE NonFinite

RMul(a, b) ==
  IF IsFinite(a) /\ IsFinite(b) THEN Norm(a[1] * b[1], a[2] * b[2]) ELSE NonFinite

RNeg(a) == IF IsFinite(a) THEN <<-a[1], a[2]>> ELSE NonFinite

\* 1.0 / static_cast<double>(n)
ROneOver(n) == IF n = 0 THEN NonFinite ELSE Norm(1, n)

\* ------------------------------------------------- input values of the calls
Etas == {R(1)}
Gradients == {R(1), R(-2)}
ScaleFactors == {R(2), Zero}
Iterations == 0..1
NumIterations == 0..2

\* -------------------------------------------------------------- functions
EmptyMap == [x \in {} |-> Zero]
Put(f, k, v) == [x \in DOMAIN f \cup {k} |-> IF x = k THEN v ELSE f[x]]

\* ----------------------------------------- WeightStore (SparseParameterVector)
SPV_New == [values |-> EmptyMap, growth_stopped |-> FALSE]
SPV_Initialize(s) == SPV_New
SPV_StopGrowth(s) == [s EXCEPT !.growth_stopped = TRUE]
SPV_AllowGrowth(s) == [s EXCEPT !.growth_stopped = FALSE]
SPV_Size(s) == Cardinality(DOMAIN s.values)
SPV_Exists(s, key) == key \in DOMAIN s.values
SPV_Get(s, key) == IF key \in DOMAIN s.values THEN s.values[key] ELSE Zero

SPV_Add(s, key, value) ==
  IF key \in DOMAIN s.values
  THEN [s EXCEPT !.values[key] = RAdd(@, value)]
  ELSE IF s.growth_stopped THEN s
       ELSE [s EXCEPT !.values = Put(@, key, value)]

SPV_Scale(s, factor) ==
  [s EXCEPT !.values = [k \in DOMAIN @ |-> RMul(@[k], factor)]]

RECURSIVE SumOver(_, _)
SumOver(f, keys) ==
  IF keys = {} THEN Zero
  ELSE LET k == CHOOSE x \in keys : TRUE
       IN RAdd(f[k], SumOver(f, keys \ {k}))

SPV_GetSquaredNorm(s) ==
  SumOver([k \in DOMAIN s.values |-> RMul(s.values[k], s.values[k])], DOMAIN s.values)

\* Add(const SparseParameterVector &): one Add per entry of the other store.
RECURSIVE SPV_AddKeys(_, _, _)
SPV_AddKeys(s, other, keys) ==
  IF keys = {} THEN s
  ELSE LET k == CHOOSE x \in keys : TRUE
       IN SPV_AddKeys(SPV_Add(s, k, other.values[k]), other, keys \ {k})

SPV_AddVector(s, other) == SPV_AddKeys(s, other, DOMAIN other.values)

\* ------------------------------ LabeledWeightStore (SparseLabeledParameterVector)
SLPV_New == [values |-> [x \in {} |-> EmptyMap], growth_stopped |-> FALSE]
SLPV_Initialize(s) == SLPV_New
SLPV_StopGrowth(s) == [s EXCEPT !.growth_stopped = TRUE]
SLPV_AllowGrowth(s) == [s EXCEPT !.growth_stopped = FALSE]
SLPV_Size(s) == Cardinality(DOMAIN s.values)
SLPV_Exists(s, key) == key \in DOMAIN s.values

SLPV_Cells(s) == {<<f, l>> \in Features \X Labels : f \in DOMAIN s.values /\ l \in DOMAIN s.values[f]}

SLPV_GetCell(s, key, label) ==
  IF key \in DOMAIN s.values /\ label \in DOMAIN s.values[key]
  THEN s.values[key][label]
  ELSE Zero

\* Get(key, labels, &label_scores): found flag and one weight per requested label.
SLPV_Get(s, key, labels) ==
  IF key \in DOMAIN s.values
  THEN [found |-> TRUE,
        label_scores |-> [k \in 1..Len(labels) |-> SLPV_GetCell(s, key, labels[k])]]
  ELSE [found |-> FALSE, label_scores |-> <<>>]

SLPV_Add(s, key, label, value) ==
  IF key \in DOMAIN s.values /\ label \in DOMAIN s.values[key]
  THEN [s EXCEPT !.values[key][label] = RAdd(@, value)]
  ELSE IF s.growth_stopped THEN s
       ELSE IF key \in DOMAIN s.values
            THEN [s EXCEPT !.values[key] = Put(@, label, value)]
            ELSE [s EXCEPT !.values = [x \in DOMAIN @ \cup {key} |->
                                         IF x = key THEN Put(EmptyMap, label, value)
                                         ELSE @[x]]]

SLPV_Scale(s, factor) ==
  [s EXCEPT !.values = [f \in DOMAIN @ |-> [l \in DOMAIN @[f] |-> RMul(@[f][l], factor)]]]

SLPV_GetSquaredNorm(s) ==
  SumOver([c \in SLPV_Cells(s) |-> RMul(s.values[c[1]][c[2]], s.values[c[1]][c[2]])],
          SLPV_Cells(s))

RECURSIVE SLPV_AddCells(_, _, _)
SLPV_AddCells(s, other, cells) ==
  IF cells = {} THEN s
  ELSE LET c == CHOOSE x \in cells : TRUE
       IN SLPV_AddCells(SLPV_Add(s, c[1], c[2], other.values[c[1]][c[2]]), other,
                        cells \ {c})

SLPV_AddVector(s, other) == SLPV_AddCells(s, other, SLPV_Cells(other))


\* ------------------------------------------------------------------- state
VARIABLES
  use_average,               \* Parameters::use_average_
  weights,                   \* Parameters::weights_
  averaged_weights,          \* Parameters::averaged_weights_
  labeled_weights,           \* Parameters::labeled_weights_
  averaged_labeled_weights,  \* Parameters::averaged_labeled_weights_
  caching_weights,           \* Parameters::caching_weights_ (cache_, hits_, misses_)
  scores,                    \* the caller's output vector *scores
  lastOp,                    \* the call that produced this state, with its arguments
  nops,                      \* number of calls made so far
  unmodified_since_cached,   \* history: labeled_weights_ unchanged since the cache was first filled
  pairs_requested,           \* history: sum over the cached calls of |features| * |labels|
  queries_issued,            \* history: number of caching_weights_.Find calls made
  ever_added,                \* history: the ids MakeGradientStep has handed to weights_.Add
  first_iteration,           \* training driver: the iteration number it gives its first step
  naive_sum,                 \* reference: sum of the snapshots of weights_ after every step
  naive_labeled_sum,         \* reference: sum of the snapshots of labeled_weights_
  pipe,                      \* DependencyLabelerDecoder::pipe_ (the task configuration)
  instance,                  \* Decode's instance: the head of every arc
  part_scores,               \* Decode's scores, one per part
  predicted_output,          \* Decode's *predicted_output, one entry per part
  decode_status              \* "idle", then "ok" or "failed" once Decode has returned

bank == <<use_average, weights, averaged_weights, labeled_weights, averaged_labeled_weights>>
vars == <<use_average, weights, averaged_weights, labeled_weights, averaged_labeled_weights,
          caching_weights, scores, lastOp, nops, unmodified_since_cached, pairs_requested,
          queries_issued, ever_added, first_iteration, naive_sum, naive_labeled_sum,
          pipe, instance, part_scores, predicted_output, decode_status>>
decoder == <<pipe, instance, part_scores, predicted_output, decode_status>>
training == <<first_iteration, naive_sum, naive_labeled_sum>>
history == <<unmodified_since_cached, pairs_requested, queries_issued, ever_added>>

NoOp == [op |-> "new", features |-> <<>>, labels |-> <<>>, label |-> 0, factor |-> Zero,
         num_iterations |-> 0, key |-> 0, returned |-> <<>>]

\* ------------------------------------------------------- FeatureLabelCache
FLC_New == [cache |-> EmptyMap, hits |-> 0, misses |-> 0]
FLC_IncrementHits(c) == [c EXCEPT !.hits = @ + 1]
FLC_IncrementMisses(c) == [c EXCEPT !.misses = @ + 1]
FLC_GetSize(c) == Cardinality(DOMAIN c.cache)
\* unordered_map::insert keeps the value of a key that is already present.
FLC_Insert(c, key, value) ==
  IF key \in DOMAIN c.cache THEN c ELSE [c EXCEPT !.cache = Put(@, key, value)]
FLC_Find(c, key) == key \in DOMAIN c.cache

\* ------------------------------------------------- DependencyLabelerDecoder
\* The labeler's instance is a sentence whose arcs are given: arc m has head
\* instance[m].  There is one part per (arc, candidate label), in arc order, and
\* one score per part.  The configuration held in pipe_ is the set of label pairs
\* that two consecutive arcs of the same head may not take.
Arcs == 1..NumArcs
Heads == 1..NumHeads
PartScores == {-1, 0, 2}
NumParts == NumArcs * NumLabels
PartOf(arc, label) == (arc - 1) * NumLabels + label

\* The arcs of one head, in sentence order.
RECURSIVE SiblingsFrom(_, _, _)
SiblingsFrom(inst, head, m) ==
  IF m > NumArcs THEN <<>>
  ELSE IF inst[m] = head
       THEN <<m>> \o SiblingsFrom(inst, head, m + 1)
       ELSE SiblingsFrom(inst, head, m + 1)

Siblings(inst, head) == SiblingsFrom(inst, head, 1)

\* The dynamic program over the arcs of one head.  A cell [label, score, path]
\* is the best labeling path of siblings[1..i] that ends in label; a label that
\* no allowed labeling ends in has no cell.
BestOf(cells) == CHOOSE b \in cells : \A o \in cells : b.score >= o.score

FirstCells(siblings, sc) ==
  {[label |-> l, score |-> sc[PartOf(siblings[1], l)], path |-> <<l>>] : l \in Labels}

\* Mutant: greedy, only the best labeling so far is extended.
NextCells_Greedy(prev, siblings, sc, forbidden, i) ==
  LET best == BestOf(prev)
      reachable == {l \in Labels : prev # {} /\ <<best.label, l>> \notin forbidden}
  IN {[label |-> l,
       score |-> best.score + sc[PartOf(siblings[i], l)],
       path |-> Append(best.path, l)] : l \in reachable}

NextCells(prev, siblings, sc, forbidden, i) ==
  LET reachable == {l \in Labels : \E c \in prev : <<c.label, l>> \notin forbidden}
  IN {LET b == BestOf({c \in prev : <<c.label, l>> \notin forbidden})
      IN [label |-> l,
          score |-> b.score + sc[PartOf(siblings[i], l)],
          path |-> Append(b.path, l)] : l \in reachable}

RECURSIVE BestEndingIn(_, _, _, _, _)
BestEndingIn(prev, siblings, sc, forbidden, i) ==
  IF i > Len(siblings) THEN prev
  ELSE BestEndingIn(NextCells(prev, siblings, sc, forbidden, i), siblings, sc, forbidden, i + 1)

\* best_labeled_parts of one head: [ok, path], path[i] the label of siblings[i].
DecodeLabels(siblings, sc, forbidden) ==
  IF Len(siblings) = 0 THEN [ok |-> TRUE, path |-> <<>>]
  ELSE LET last == BestEndingIn(FirstCells(siblings, sc), siblings, sc, forbidden, 2)
       IN IF last = {}
          THEN [ok |-> FALSE, path |-> <<>>]
          ELSE [ok |-> TRUE, path |-> BestOf(last).path]

\* Decode: the heads are decoded one by one and their labelings put together.
DecodeResult(inst, sc, forbidden) ==
  LET best == [h \in Heads |-> DecodeLabels(Siblings(inst, h), sc, forbidden)]
  IN IF \E h \in Heads : ~best[h].ok
     THEN [ok |-> FALSE, output |-> <<>>]
     ELSE [ok |-> TRUE,
           output |->
             [r \in 1..NumParts |->
                IF \E h \in Heads : \E i \in 1..Len(Siblings(inst, h)) :
                     r = PartOf(Siblings(inst, h)[i], best[h].path[i])
                THEN 1 ELSE 0]]

Decode ==
  /\ decode_status = "idle"
  /\ LET r == DecodeResult(instance, part_scores, pipe)
     IN /\ predicted_output' = r.output
        /\ decode_status' = IF r.ok THEN "ok" ELSE "failed"
  /\ UNCHANGED <<pipe, instance, part_scores>>

\* A second call on the same decoder, with the scores of another sentence.
DecodeAgain ==
  /\ decode_status # "idle"
  /\ \E sc \in {[r \in 1..NumParts |-> v] : v \in PartScores} :
       /\ sc # part_scores
       /\ part_scores' = sc
  /\ decode_status' = "idle"
  /\ predicted_output' = <<>>
  /\ UNCHANGED <<pipe, instance>>

NoDecoding ==
  /\ pipe = {}
  /\ instance = [m \in Arcs |-> 1]
  /\ part_scores = [r \in 1..NumParts |-> 0]
  /\ predicted_output = <<>>
  /\ decode_status = "idle"

\* ------------------------------------------------------- Parameters: queries
Size == SPV_Size(weights) + SLPV_Size(labeled_weights)
Exists(key) == SPV_Exists(weights, key)
ExistsLabeled(key) == SLPV_Exists(labeled_weights, key)
Get(key) == SPV_Get(weights, key)
GetLabeled(key, labels) == SLPV_Get(labeled_weights, key, labels)
GetSquaredNorm == RAdd(SPV_GetSquaredNorm(weights), SLPV_GetSquaredNorm(labeled_weights))

RECURSIVE ComputeScoreLoop(_, _, _)
ComputeScoreLoop(score, features, j) ==
  IF j > Len(features) THEN score
  ELSE ComputeScoreLoop(RAdd(score, Get(features[j])), features, j + 1)

ComputeScore(features) == ComputeScoreLoop(Zero, features, 1)

ZeroScores(labels) == [k \in 1..Len(labels) |-> Zero]

\* Mutant: the loop ends at the first feature without labeled weights.
RECURSIVE ComputeLabelScoresLoop_StopAtMissing(_, _, _, _)
ComputeLabelScoresLoop_StopAtMissing(sc, features, labels, j) ==
  IF j > Len(features) THEN sc
  ELSE LET got == GetLabeled(features[j], labels)
       IN IF ~got.found
          THEN sc
          ELSE ComputeLabelScoresLoop_StopAtMissing(
                 [k \in 1..Len(labels) |-> RAdd(sc[k], got.label_scores[k])],
                 features, labels, j + 1)

RECURSIVE ComputeLabelScoresLoop(_, _, _, _)
ComputeLabelScoresLoop(sc, features, labels, j) ==
  IF j > Len(features) THEN sc
  ELSE LET got == GetLabeled(features[j], labels)
       IN IF ~got.found
          THEN ComputeLabelScoresLoop(sc, features, labels, j + 1)
          ELSE ComputeLabelScoresLoop(
                 [k \in 1..Len(labels) |-> RAdd(sc[k], got.label_scores[k])],
                 features, labels, j + 1)

ComputeLabelScores(features, labels) ==
  ComputeLabelScoresLoop(ZeroScores(labels), features, labels, 1)

\* ------------------------------------ Parameters::ComputeLabelScoresWithCache
\* st = [scores, cw, reduced_labels, adjust_new_index_reduced_labels]
RECURSIVE CacheLookupLoop(_, _, _, _)
CacheLookupLoop(st, feature, labels, k) ==
  IF k > Len(labels) THEN st
  ELSE LET caching_key == <<feature, labels[k]>>
       IN IF ~FLC_Find(st.cw, caching_key)
          THEN CacheLookupLoop(
                 [st EXCEPT !.reduced_labels = Append(@, labels[k]),
                            !.adjust_new_index_reduced_labels = Append(@, k),
                            !.cw = FLC_IncrementMisses(@)],
                 feature, labels, k + 1)
          ELSE CacheLookupLoop(
                 [st EXCEPT !.scores[k] = RAdd(@, st.cw.cache[caching_key]),
                            !.cw = FLC_IncrementHits(@)],
                 feature, labels, k + 1)

\* Mutant: the looked-up weight is added at the position in reduced_labels, not
\* at the position the label has in labels.
RECURSIVE CacheFillLoop_ReducedIndex(_, _, _, _)
CacheFillLoop_ReducedIndex(st, feature, label_scores, k) ==
  IF k > Len(st.reduced_labels) THEN st
  ELSE CacheFillLoop_ReducedIndex(
         [st EXCEPT !.scores[k] = RAdd(@, label_scores[k]),
                    !.cw = FLC_Insert(@, <<feature, st.reduced_labels[k]>>, label_scores[k])],
         feature, label_scores, k + 1)

RECURSIVE CacheFillLoop(_, _, _, _)
CacheFillLoop(st, feature, label_scores, k) ==
  IF k > Len(st.reduced_labels) THEN st
  ELSE CacheFillLoop(
         [st EXCEPT !.scores[st.adjust_new_index_reduced_labels[k]] = RAdd(@, label_scores[k]),
                    !.cw = FLC_Insert(@, <<feature, st.reduced_labels[k]>>, label_scores[k])],
         feature, label_scores, k + 1)

\* Mutant: ExistsLabeled is not asked, every listed feature is looked up.
RECURSIVE CachedFeatureLoop_NoExistsCheck(_, _, _, _)
CachedFeatureLoop_NoExistsCheck(st, features, labels, j) ==
  IF j > Len(features) THEN st
  ELSE LET looked == CacheLookupLoop(
                       [st EXCEPT !.reduced_labels = <<>>,
                                  !.adjust_new_index_reduced_labels = <<>>],
                       features[j], labels, 1)
           got == GetLabeled(features[j], looked.reduced_labels)
       IN IF Len(looked.reduced_labels) = 0
          THEN CachedFeatureLoop_NoExistsCheck(looked, features, labels, j + 1)
          ELSE IF ~got.found
               THEN CachedFeatureLoop_NoExistsCheck(looked, features, labels, j + 1)
               ELSE CachedFeatureLoop_NoExistsCheck(
                      CacheFillLoop(looked, features[j], got.label_scores, 1),
                      features, labels, j + 1)

RECURSIVE CachedFeatureLoop(_, _, _, _)
CachedFeatureLoop(st, features, labels, j) ==
  IF j > Len(features) THEN st
  ELSE IF ~ExistsLabeled(features[j])
       THEN CachedFeatureLoop(st, features, labels, j + 1)
       ELSE LET looked == CacheLookupLoop(
                            [st EXCEPT !.reduced_labels = <<>>,
                                       !.adjust_new_index_reduced_labels = <<>>],
                            features[j], labels, 1)
                got == GetLabeled(features[j], looked.reduced_labels)
            IN IF Len(looked.reduced_labels) = 0
               THEN CachedFeatureLoop(looked, features, labels, j + 1)
               ELSE IF ~got.found
                    THEN CachedFeatureLoop(looked, features, labels, j + 1)
                    ELSE CachedFeatureLoop(
                           CacheFillLoop(looked, features[j], got.label_scores, 1),
                           features, labels, j + 1)

\* Mutant: the cache is handed the running score of the label, not the weight
\* that was looked up.
ComputeLabelScoresWithCacheResult_CachesScore(features, labels) ==
  LET r == CachedFeatureLoop([scores |-> ZeroScores(labels), cw |-> caching_weights,
                              reduced_labels |-> <<>>,
                              adjust_new_index_reduced_labels |-> <<>>],
                             features, labels, 1)
      new == DOMAIN r.cw.cache \ DOMAIN caching_weights.cache
  IN [r EXCEPT !.cw.cache =
        [key \in DOMAIN @ |->
           IF key \in new /\ \E k \in 1..Len(labels) : labels[k] = key[2]
           THEN r.scores[CHOOSE k \in 1..Len(labels) : labels[k] = key[2]]
           ELSE @[key]]]

ComputeLabelScoresWithCacheResult(features, labels) ==
  CachedFeatureLoop([scores |-> ZeroScores(labels), cw |-> caching_weights,
                     reduced_labels |-> <<>>, adjust_new_index_reduced_labels |-> <<>>],
                    features, labels, 1)

\* Mutant: a listed feature without labeled weights is created by the lookup.
ComputeLabelScoresWithCache_CreatesMissing(features, labels) ==
  LET r == ComputeLabelScoresWithCacheResult(features, labels)
      listed == {features[j] : j \in 1..Len(features)}
  IN /\ scores' = r.scores
     /\ caching_weights' = r.cw
     /\ labeled_weights' =
          [labeled_weights EXCEPT !.values =
             [x \in DOMAIN @ \cup listed |-> IF x \in DOMAIN @ THEN @[x] ELSE EmptyMap]]
     /\ UNCHANGED <<use_average, weights, averaged_weights, averaged_labeled_weights>>

ComputeLabelScoresWithCache(features, labels) ==
  LET r == ComputeLabelScoresWithCacheResult(features, labels)
  IN /\ scores' = r.scores
     /\ caching_weights' = r.cw
     /\ UNCHANGED bank

\* ------------------------------------------------------ Parameters: updates
Initialize(ua) ==
  /\ use_average' = ua
  /\ weights' = SPV_Initialize(weights)
  /\ averaged_weights' = IF ua THEN SPV_Initialize(averaged_weights) ELSE averaged_weights
  /\ labeled_weights' = SLPV_Initialize(labeled_weights)
  /\ averaged_labeled_weights' =
       IF ua THEN SLPV_Initialize(averaged_labeled_weights) ELSE averaged_labeled_weights
  /\ UNCHANGED <<caching_weights, scores>>

\* Mutant: the labeled stores are not locked.
StopGrowth_UnlabeledOnly ==
  /\ weights' = SPV_StopGrowth(weights)
  /\ averaged_weights' = SPV_StopGrowth(averaged_weights)
  /\ UNCHANGED <<use_average, labeled_weights, averaged_labeled_weights,
                 caching_weights, scores>>

StopGrowth ==
  /\ weights' = SPV_StopGrowth(weights)
  /\ averaged_weights' = SPV_StopGrowth(averaged_weights)
  /\ labeled_weights' = SLPV_StopGrowth(labeled_weights)
  /\ averaged_labeled_weights' = SLPV_StopGrowth(averaged_labeled_weights)
  /\ UNCHANGED <<use_average, caching_weights, scores>>

\* Mutant: the averaged stores are not unlocked.
AllowGrowth_LiveOnly ==
  /\ weights' = SPV_AllowGrowth(weights)
  /\ labeled_weights' = SLPV_AllowGrowth(labeled_weights)
  /\ UNCHANGED <<use_average, averaged_weights, averaged_labeled_weights,
                 caching_weights, scores>>

AllowGrowth ==
  /\ weights' = SPV_AllowGrowth(weights)
  /\ averaged_weights' = SPV_AllowGrowth(averaged_weights)
  /\ labeled_weights' = SLPV_AllowGrowth(labeled_weights)
  /\ averaged_labeled_weights' = SLPV_AllowGrowth(averaged_labeled_weights)
  /\ UNCHANGED <<use_average, caching_weights, scores>>

\* Mutant: the averaged stores are scaled too.
Scale_AllStores(scale_factor) ==
  /\ weights' = SPV_Scale(weights, scale_factor)
  /\ labeled_weights' = SLPV_Scale(labeled_weights, scale_factor)
  /\ averaged_weights' = SPV_Scale(averaged_weights, scale_factor)
  /\ averaged_labeled_weights' = SLPV_Scale(averaged_labeled_weights, scale_factor)
  /\ UNCHANGED <<use_average, caching_weights, scores>>

Scale(scale_factor) ==
  /\ weights' = SPV_Scale(weights, scale_factor)
  /\ labeled_weights' = SLPV_Scale(labeled_weights, scale_factor)
  /\ UNCHANGED <<use_average, averaged_weights, averaged_labeled_weights,
                 caching_weights, scores>>

\* -eta * gradient
LiveDelta(eta, gradient) == RMul(RNeg(eta), gradient)
\* Mutant: the step is weighted with iteration + 1.
AveragedDelta_IterationPlusOne(iteration, eta, gradient) ==
  RMul(RMul(R(iteration + 1), eta), gradient)

\* static_cast<double>(iteration) * eta * gradient
AveragedDelta(iteration, eta, gradient) == RMul(RMul(R(iteration), eta), gradient)

RECURSIVE SPV_AddEach(_, _, _, _)
SPV_AddEach(s, features, j, value) ==
  IF j > Len(features) THEN s
  ELSE SPV_AddEach(SPV_Add(s, features[j], value), features, j + 1, value)

RECURSIVE SLPV_AddEach(_, _, _, _, _)
SLPV_AddEach(s, features, j, label, value) ==
  IF j > Len(features) THEN s
  ELSE SLPV_AddEach(SLPV_Add(s, features[j], label, value), features, j + 1, label, value)

\* Mutant: an id listed several times is updated once.
MakeGradientStep_OncePerId(features, eta, iteration, gradient) ==
  LET listed == {features[j] : j \in 1..Len(features)}
      once(value) == [values |-> [f \in listed |-> value], growth_stopped |-> FALSE]
  IN /\ weights' = SPV_AddVector(weights, once(LiveDelta(eta, gradient)))
     /\ averaged_weights' =
          IF use_average
          THEN SPV_AddVector(averaged_weights, once(AveragedDelta(iteration, eta, gradient)))
          ELSE averaged_weights
     /\ UNCHANGED <<use_average, labeled_weights, averaged_labeled_weights,
                    caching_weights, scores>>

MakeGradientStep(features, eta, iteration, gradient) ==
  /\ weights' = SPV_AddEach(weights, features, 1, LiveDelta(eta, gradient))
  /\ averaged_weights' =
       IF use_average
       THEN SPV_AddEach(averaged_weights, features, 1, AveragedDelta(iteration, eta, gradient))
       ELSE averaged_weights
  /\ UNCHANGED <<use_average, labeled_weights, averaged_labeled_weights,
                 caching_weights, scores>>

MakeLabelGradientStep(features, eta, iteration, label, gradient) ==
  /\ labeled_weights' = SLPV_AddEach(labeled_weights, features, 1, label, LiveDelta(eta, gradient))
  /\ averaged_labeled_weights' =
       IF use_average
       THEN SLPV_AddEach(averaged_labeled_weights, features, 1, label,
                         AveragedDelta(iteration, eta, gradient))
       ELSE averaged_labeled_weights
  /\ UNCHANGED <<use_average, weights, averaged_weights, caching_weights, scores>>

\* Mutant: use_average_ is not tested.
Finalize_Always(num_iterations) ==
  LET scaled == SPV_Scale(averaged_weights, ROneOver(num_iterations))
      scaled_labeled == SLPV_Scale(averaged_labeled_weights, ROneOver(num_iterations))
  IN /\ averaged_weights' = scaled
     /\ weights' = SPV_AddVector(weights, scaled)
     /\ averaged_labeled_weights' = scaled_labeled
     /\ labeled_weights' = SLPV_AddVector(labeled_weights, scaled_labeled)
     /\ UNCHANGED <<use_average, caching_weights, scores>>

Finalize(num_iterations) ==
  IF use_average
  THEN LET scaled == SPV_Scale(averaged_weights, ROneOver(num_iterations))
           scaled_labeled == SLPV_Scale(averaged_labeled_weights, ROneOver(num_iterations))
       IN /\ averaged_weights' = scaled
          /\ weights' = SPV_AddVector(weights, scaled)
          /\ averaged_labeled_weights' = scaled_labeled
          /\ labeled_weights' = SLPV_AddVector(labeled_weights, scaled_labeled)
          /\ UNCHANGED <<use_average, caching_weights, scores>>
  ELSE UNCHANGED <<bank, caching_weights, scores>>

\* ---------------------------------------------- one Parameters object, any calls
\* Bookkeeping common to every call: the call and its arguments, the call count,
\* and the history variables.
Called(op) ==
  /\ lastOp' = op
  /\ nops' = nops + 1
  /\ unmodified_since_cached' =
       (\/ DOMAIN caching_weights.cache = {}
        \/ (unmodified_since_cached /\ labeled_weights'.values = labeled_weights.values))
  /\ pairs_requested' =
       IF op.op = "ComputeLabelScoresWithCache"
       THEN pairs_requested + Len(op.features) * Len(op.labels)
       ELSE pairs_requested
  /\ queries_issued' =
       IF op.op = "ComputeLabelScoresWithCache"
       THEN queries_issued
              + Len(op.labels) * Cardinality({j \in 1..Len(op.features) : ExistsLabeled(op.features[j])})
       ELSE queries_issued
  /\ ever_added' =
       IF op.op = "MakeGradientStep"
       THEN ever_added \cup {op.features[j] : j \in 1..Len(op.features)}
       ELSE ever_added
  /\ UNCHANGED <<training, decoder>>

CallInitialize ==
  \E ua \in BOOLEAN :
    /\ nops < MaxOps
    /\ Initialize(ua)
    /\ Called([NoOp EXCEPT !.op = IF ua THEN "Initialize(true)" ELSE "Initialize(false)"])

CallStopGrowth == nops < MaxOps /\ StopGrowth /\ Called([NoOp EXCEPT !.op = "StopGrowth"])

CallAllowGrowth == nops < MaxOps /\ AllowGrowth /\ Called([NoOp EXCEPT !.op = "AllowGrowth"])

CallScale ==
  \E f \in ScaleFactors :
    /\ nops < MaxOps
    /\ Scale(f)
    /\ Called([NoOp EXCEPT !.op = "Scale", !.factor = f])

CallMakeGradientStep ==
  \E features \in FeatureLists, eta \in Etas, iteration \in Iterations, gradient \in Gradients :
    /\ nops < MaxOps
    /\ MakeGradientStep(features, eta, iteration, gradient)
    /\ Called([NoOp EXCEPT !.op = "MakeGradientStep", !.features = features])

CallMakeLabelGradientStep ==
  \E features \in FeatureLists, eta \in Etas, iteration \in Iterations, label \in Labels,
     gradient \in Gradients :
    /\ nops < MaxOps
    /\ MakeLabelGradientStep(features, eta, iteration, label, gradient)
    /\ Called([NoOp EXCEPT !.op = "MakeLabelGradientStep", !.features = features,
                           !.label = label])

CallFinalize ==
  \E num_iterations \in NumIterations :
    /\ nops < MaxOps
    /\ Finalize(num_iterations)
    /\ Called([NoOp EXCEPT !.op = "Finalize", !.num_iterations = num_iterations])

CallComputeLabelScoresWithCache ==
  \E features \in FeatureLists, labels \in LabelLists :
    /\ nops < MaxOps
    /\ ComputeLabelScoresWithCache(features, labels)
    /\ Called([NoOp EXCEPT !.op = "ComputeLabelScoresWithCache", !.features = features,
                           !.labels = labels])

\* The const member functions: the stores are left alone, the value returned is
\* recorded with the call.
CallSize ==
  /\ nops < MaxOps
  /\ UNCHANGED <<bank, caching_weights, scores>>
  /\ Called([NoOp EXCEPT !.op = "Size", !.returned = <<Size>>])

CallExists ==
  \E key \in Features :
    /\ nops < MaxOps
    /\ UNCHANGED <<bank, caching_weights, scores>>
    /\ Called([NoOp EXCEPT !.op = "Exists", !.key = key, !.returned = <<Exists(key)>>])

CallExistsLabeled ==
  \E key \in Features :
    /\ nops < MaxOps
    /\ UNCHANGED <<bank, caching_weights, scores>>
    /\ Called([NoOp EXCEPT !.op = "ExistsLabeled", !.key = key,
                           !.returned = <<ExistsLabeled(key)>>])

CallGet ==
  \E key \in Features :
    /\ nops < MaxOps
    /\ UNCHANGED <<bank, caching_weights, scores>>
    /\ Called([NoOp EXCEPT !.op = "Get", !.key = key, !.returned = <<Get(key)>>])

CallComputeScore ==
  \E features \in FeatureLists :
    /\ nops < MaxOps
    /\ UNCHANGED <<bank, caching_weights, scores>>
    /\ Called([NoOp EXCEPT !.op = "ComputeScore", !.features = features,
                           !.returned = <<ComputeScore(features)>>])

CallComputeLabelScores ==
  \E features \in FeatureLists, labels \in LabelLists :
    /\ nops < MaxOps
    /\ scores' = ComputeLabelScores(features, labels)
    /\ UNCHANGED <<bank, caching_weights>>
    /\ Called([NoOp EXCEPT !.op = "ComputeLabelScores", !.features = features,
                           !.labels = labels])

\* The state after Parameters() : use_average_ = true, four empty stores, an
\* empty cache with zeroed counters.
InitParameters ==
  /\ use_average = TRUE
  /\ weights = SPV_New
  /\ averaged_weights = SPV_New
  /\ labeled_weights = SLPV_New
  /\ averaged_labeled_weights = SLPV_New
  /\ caching_weights = FLC_New
  /\ scores = <<>>
  /\ lastOp = NoOp
  /\ nops = 0
  /\ unmodified_since_cached = TRUE
  /\ pairs_requested = 0
  /\ queries_issued = 0
  /\ ever_added = {}

NoSnapshots ==
  /\ naive_sum = [f \in Features |-> Zero]
  /\ naive_labeled_sum = [c \in Features \X Labels |-> Zero]

Init ==
  /\ InitParameters
  /\ first_iteration = 0
  /\ NoSnapshots
  /\ NoDecoding

Next ==
  \/ CallInitialize
  \/ CallStopGrowth
  \/ CallAllowGrowth
  \/ CallScale
  \/ CallMakeGradientStep
  \/ CallMakeLabelGradientStep
  \/ CallFinalize
  \/ CallComputeLabelScoresWithCache

Spec == Init /\ [][Next]_vars

\* --------------------------- the cached scoring path between writes to the weights
NextCache ==
  \/ CallMakeLabelGradientStep
  \/ CallScale
  \/ CallFinalize
  \/ CallComputeLabelScoresWithCache

SpecCache == Init /\ [][NextCache]_vars

\* ------------------------------- gradient steps and growth locks, then lookups
NextQuery ==
  \/ CallMakeGradientStep
  \/ CallMakeLabelGradientStep
  \/ CallStopGrowth
  \/ CallAllowGrowth
  \/ CallSize
  \/ CallExists
  \/ CallExistsLabeled
  \/ CallGet
  \/ CallComputeScore
  \/ CallComputeLabelScores
  \/ CallComputeLabelScoresWithCache

SpecQuery == Init /\ [][NextQuery]_vars

\* ------------------------------------------------ a training run, then Finalize
\* The driver owns the iteration counter: its step number n (n = 1, 2, ...) is
\* made with iteration = first_iteration + n - 1, and after T steps it calls
\* Finalize(T).  The reference sums a full snapshot of the live weights after
\* every step.
Trained(op) ==
  /\ lastOp' = op
  /\ nops' = nops + 1
  /\ naive_sum' = [f \in Features |-> RAdd(naive_sum[f], SPV_Get(weights', f))]
  /\ naive_labeled_sum' =
       [c \in Features \X Labels |->
          RAdd(naive_labeled_sum[c], SLPV_GetCell(labeled_weights', c[1], c[2]))]
  /\ UNCHANGED <<first_iteration, history, decoder>>

Finalized == lastOp.op = "Finalize"

TrainMakeGradientStep ==
  \E features \in FeatureLists, eta \in Etas, gradient \in Gradients :
    /\ nops < MaxSteps
    /\ ~Finalized
    /\ MakeGradientStep(features, eta, first_iteration + nops, gradient)
    /\ Trained([NoOp EXCEPT !.op = "MakeGradientStep", !.features = features])

TrainMakeLabelGradientStep ==
  \E features \in FeatureLists, eta \in Etas, label \in Labels, gradient \in Gradients :
    /\ nops < MaxSteps
    /\ ~Finalized
    /\ MakeLabelGradientStep(features, eta, first_iteration + nops, label, gradient)
    /\ Trained([NoOp EXCEPT !.op = "MakeLabelGradientStep", !.features = features,
                            !.label = label])

TrainStopGrowth ==
  /\ ~Finalized
  /\ ~weights.growth_stopped
  /\ StopGrowth
  /\ UNCHANGED <<lastOp, nops, history, training, decoder>>

TrainAllowGrowth ==
  /\ ~Finalized
  /\ weights.growth_stopped
  /\ AllowGrowth
  /\ UNCHANGED <<lastOp, nops, history, training, decoder>>

TrainFinalize ==
  /\ nops >= 1
  /\ ~Finalized
  /\ Finalize(nops)
  /\ lastOp' = [NoOp EXCEPT !.op = "Finalize", !.num_iterations = nops]
  /\ UNCHANGED <<nops, history, training, decoder>>

InitTrain ==
  /\ InitParameters
  /\ first_iteration \in {0, 1}
  /\ NoSnapshots
  /\ NoDecoding

NextTrain ==
  \/ TrainMakeGradientStep
  \/ TrainMakeLabelGradientStep
  \/ TrainStopGrowth
  \/ TrainAllowGrowth
  \/ TrainFinalize

SpecTrain == InitTrain /\ [][NextTrain]_vars

\* ------------------------------------- one decoder, any instance, any scores
InitDecode ==
  /\ InitParameters
  /\ first_iteration = 0
  /\ NoSnapshots
  /\ pipe \in SUBSET (Labels \X Labels)
  /\ instance \in [Arcs -> Heads]
  /\ part_scores \in [1..NumParts -> PartScores]
  /\ predicted_output = <<>>
  /\ decode_status = "idle"

NextDecode ==
  \/ Decode /\ UNCHANGED <<bank, caching_weights, scores, lastOp, nops, history, training>>
  \/ DecodeAgain /\ UNCHANGED <<bank, caching_weights, scores, lastOp, nops, history, training>>

SpecDecode == InitDecode /\ [][NextDecode]_vars


\* ================================================================== claims
IsStep(op) == op.op \in {"MakeGradientStep", "MakeLabelGradientStep"}
Keys(s) == DOMAIN s.values
CacheCoherent ==
  \A key \in DOMAIN caching_weights.cache :
    caching_weights.cache[key] = SLPV_GetCell(labeled_weights, key[1], key[2])
AllStopped ==
  /\ weights.growth_stopped
  /\ averaged_weights.growth_stopped
  /\ labeled_weights.growth_stopped
  /\ averaged_labeled_weights.growth_stopped

FinalizeAveraged ==
  /\ \A f \in Features : Get(f) = RMul(naive_sum[f], ROneOver(nops))
  /\ \A c \in Features \X Labels :
       SLPV_GetCell(labeled_weights, c[1], c[2]) = RMul(naive_labeled_sum[c], ROneOver(nops))

\* C1 (as claimed): after T steps, step number t made with iteration = t, and
\* Finalize(T), every live weight equals the sum of its T snapshots divided by T.
C1_Original_AverageWithIterationFromOne ==
  (Finalized /\ first_iteration = 1) => FinalizeAveraged

\* C1 (amended): after T >= 1 steps, step number t made with iteration = t - 1
\* (the first step with iteration 0), and Finalize(T), every live weight,
\* unlabeled and labeled, equals the sum of its T snapshots divided by T.
C1_AverageWithIterationFromZero ==
  (Finalized /\ first_iteration = 0) => FinalizeAveraged

C1_Witness ==
  /\ Finalized
  /\ first_iteration = 0
  /\ nops = MaxSteps
  /\ \E f \in Features : naive_sum[f] # Zero /\ Get(f) # Zero /\ Get(f)[2] # 1
  /\ \E c \in Features \X Labels : naive_labeled_sum[c] # Zero

\* C2: as long as the labeled weights have not been modified since the cache was
\* first filled, ComputeLabelScoresWithCache leaves in *scores exactly the vector
\* ComputeLabelScores computes for the same features and labels, and the call
\* changes nothing but the cache contents and the hit/miss counters.
C2_CachedScoresEqualUncached ==
  /\ [](lastOp.op = "ComputeLabelScoresWithCache" /\ unmodified_since_cached
          => scores = ComputeLabelScores(lastOp.features, lastOp.labels))
  /\ [][lastOp'.op = "ComputeLabelScoresWithCache" => UNCHANGED bank]_vars

C2_Witness ==
  /\ lastOp.op = "ComputeLabelScoresWithCache"
  /\ unmodified_since_cached
  /\ caching_weights.hits > 0
  /\ caching_weights.misses > 1
  /\ Len(lastOp.features) = 2
  /\ Len(lastOp.labels) = 2
  /\ \E k \in 1..Len(scores) : scores[k] # Zero

\* C3 (as claimed): in every reachable state every cache entry holds the current
\* live labeled weight of its (feature, label) pair.
C3_Original_CacheAlwaysCoherent == CacheCoherent

\* C3 (amended): the cache is never invalidated.  An entry is inserted with the
\* live labeled weight of its pair and is never changed or removed afterwards; so
\* every entry holds the current live weight in the states reached without a
\* change of the labeled weights since the cache was first filled.
C3_CacheCoherentUntilWritten ==
  /\ [](unmodified_since_cached => CacheCoherent)
  /\ [][/\ \A key \in DOMAIN caching_weights.cache :
              /\ key \in DOMAIN caching_weights'.cache
              /\ caching_weights'.cache[key] = caching_weights.cache[key]
        /\ \A key \in DOMAIN caching_weights'.cache \ DOMAIN caching_weights.cache :
              caching_weights'.cache[key] = SLPV_GetCell(labeled_weights, key[1], key[2])]_vars

C3_Witness ==
  /\ unmodified_since_cached
  /\ Cardinality(DOMAIN caching_weights.cache) >= 2
  /\ \E key \in DOMAIN caching_weights.cache : caching_weights.cache[key] # Zero
  /\ caching_weights.hits > 0

\* C4 (as claimed): hits + misses equals the sum over the cached calls of
\* |features| * |labels|.
C4_Original_CountsAllPairs ==
  caching_weights.hits + caching_weights.misses = pairs_requested

\* C4 (amended): hits + misses equals the number of cache lookups made, one per
\* (feature occurrence, requested label) pair whose feature has labeled weights
\* (ExistsLabeled) at the time of the call; neither counter ever decreases.
C4_CountsLookups ==
  /\ [](caching_weights.hits + caching_weights.misses = queries_issued)
  /\ [][/\ caching_weights'.hits >= caching_weights.hits
        /\ caching_weights'.misses >= caching_weights.misses]_vars

C4_Witness ==
  /\ caching_weights.hits > 0
  /\ caching_weights.misses > 0
  /\ queries_issued < pairs_requested

\* C5: a gradient step made while growth is stopped inserts no key in any store
\* (Exists stays false, Get stays 0.0, Size is unchanged), leaves every entry it
\* does not name as it was, and changes nothing at all when every key it names
\* is new.
C5_NoInsertionAfterStopGrowth ==
  [][(IsStep(lastOp') /\ (lastOp.op = "StopGrowth" \/ AllStopped))
       => /\ Keys(weights') = Keys(weights)
          /\ Keys(averaged_weights') = Keys(averaged_weights)
          /\ SLPV_Cells(labeled_weights') = SLPV_Cells(labeled_weights)
          /\ SLPV_Cells(averaged_labeled_weights') = SLPV_Cells(averaged_labeled_weights)
          /\ Size' = Size
          /\ \A f \in Features \ Keys(weights) : ~Exists(f)' /\ Get(f)' = Zero
          /\ \A f \in Features \ Keys(labeled_weights) : ~ExistsLabeled(f)'
          /\ \A f \in Keys(weights) :
               (\A j \in 1..Len(lastOp'.features) : lastOp'.features[j] # f)
                 => weights'.values[f] = weights.values[f]
          /\ \A f \in Keys(averaged_weights) :
               (\A j \in 1..Len(lastOp'.features) : lastOp'.features[j] # f)
                 => averaged_weights'.values[f] = averaged_weights.values[f]
          /\ \A c \in SLPV_Cells(labeled_weights) :
               (\A j \in 1..Len(lastOp'.features) : lastOp'.features[j] # c[1])
                 => labeled_weights'.values[c[1]][c[2]] = labeled_weights.values[c[1]][c[2]]
          /\ \A c \in SLPV_Cells(averaged_labeled_weights) :
               (\A j \in 1..Len(lastOp'.features) : lastOp'.features[j] # c[1])
                 => averaged_labeled_weights'.values[c[1]][c[2]] =
                      averaged_labeled_weights.values[c[1]][c[2]]
          /\ (lastOp'.op = "MakeGradientStep"
                /\ \A j \in 1..Len(lastOp'.features) : lastOp'.features[j] \notin Keys(weights))
               => UNCHANGED bank
          /\ (lastOp'.op = "MakeLabelGradientStep"
                /\ \A j \in 1..Len(lastOp'.features) :
                     <<lastOp'.features[j], lastOp'.label>> \notin SLPV_Cells(labeled_weights))
               => UNCHANGED bank]_vars

C5_Witness ==
  /\ lastOp.op = "MakeGradientStep"
  /\ AllStopped
  /\ Keys(weights) # {}
  /\ \E f \in Keys(weights) : weights.values[f] # Zero
  /\ \E j \in 1..Len(lastOp.features) : lastOp.features[j] \notin Keys(weights)

\* C6: while use_average is true the four stores have the same growth flag, the
\* live and the averaged store of each family hold the same keys, and Finalize
\* adds every averaged weight into the live store.
C6_SameKeyUniverse ==
  /\ [](use_average =>
          /\ averaged_weights.growth_stopped = weights.growth_stopped
          /\ labeled_weights.growth_stopped = weights.growth_stopped
          /\ averaged_labeled_weights.growth_stopped = weights.growth_stopped
          /\ Keys(weights) = Keys(averaged_weights)
          /\ SLPV_Cells(labeled_weights) = SLPV_Cells(averaged_labeled_weights))
  /\ [][(lastOp'.op = "Finalize" /\ use_average)
          => /\ \A f \in Keys(averaged_weights) :
                  /\ f \in Keys(weights')
                  /\ weights'.values[f] = RAdd(SPV_Get(weights, f), averaged_weights'.values[f])
             /\ \A c \in SLPV_Cells(averaged_labeled_weights) :
                  /\ c \in SLPV_Cells(labeled_weights')
                  /\ labeled_weights'.values[c[1]][c[2]] =
                       RAdd(SLPV_GetCell(labeled_weights, c[1], c[2]),
                            averaged_labeled_weights'.values[c[1]][c[2]])]_vars

C6_Witness ==
  /\ use_average
  /\ lastOp.op = "Finalize"
  /\ lastOp.num_iterations = 2
  /\ weights.growth_stopped
  /\ \E f \in Keys(averaged_weights) : averaged_weights.values[f] # Zero

\* C7: when use_average is false, Finalize changes none of the four stores, nor
\* the flag, nor the cache, whatever num_iterations is (0 included).
C7_FinalizeNoOpWithoutAverage ==
  [][(lastOp'.op = "Finalize" /\ ~use_average) => UNCHANGED <<bank, caching_weights>>]_vars

C7_Witness ==
  /\ lastOp.op = "Finalize"
  /\ lastOp.num_iterations = 0
  /\ ~use_average
  /\ Keys(averaged_weights) # {}

\* C8 (as claimed): whenever use_average is false, both averaged stores are empty.
C8_AveragedEmptyWithoutAverage ==
  ~use_average => Keys(averaged_weights) = {} /\ Keys(averaged_labeled_weights) = {}

\* C9: Scale multiplies every weight of weights and labeled_weights by the factor
\* and leaves both averaged stores as they were; GetSquaredNorm is the sum of the
\* squares of the live unlabeled and labeled weights over all keys (an absent key
\* counting 0), whatever the averaged stores hold.
C9_ScaleAndNormLiveOnly ==
  /\ [][lastOp'.op = "Scale"
          => /\ Keys(weights') = Keys(weights)
             /\ \A f \in Keys(weights) :
                  weights'.values[f] = RMul(weights.values[f], lastOp'.factor)
             /\ SLPV_Cells(labeled_weights') = SLPV_Cells(labeled_weights)
             /\ \A c \in SLPV_Cells(labeled_weights) :
                  labeled_weights'.values[c[1]][c[2]] =
                    RMul(labeled_weights.values[c[1]][c[2]], lastOp'.factor)
             /\ UNCHANGED <<averaged_weights, averaged_labeled_weights>>]_vars
  /\ [](GetSquaredNorm =
          RAdd(SumOver([f \in Features |-> RMul(Get(f), Get(f))], Features),
               SumOver([c \in Features \X Labels |->
                          RMul(SLPV_GetCell(labeled_weights, c[1], c[2]),
                               SLPV_GetCell(labeled_weights, c[1], c[2]))],
                       Features \X Labels)))

C9_Witness ==
  /\ lastOp.op = "Scale"
  /\ lastOp.factor = R(2)
  /\ \E f \in Keys(weights) : weights.values[f] # Zero
  /\ \E c \in SLPV_Cells(labeled_weights) : labeled_weights.values[c[1]][c[2]] # Zero
  /\ \E f \in Keys(averaged_weights) : averaged_weights.values[f] # Zero
  /\ GetSquaredNorm # Zero


\* The structures the hard constraints allow: one label per arc, no forbidden
\* pair of labels on two consecutive arcs of the same head.
Legal(labeling) ==
  \A h \in Heads :
    LET sib == Siblings(instance, h)
    IN \A i \in 1..(Len(sib) - 1) : <<labeling[sib[i]], labeling[sib[i + 1]]>> \notin pipe
LegalLabelings == {labeling \in [Arcs -> Labels] : Legal(labeling)}
TotalScore(labeling) ==
  SumOver([m \in Arcs |-> R(part_scores[PartOf(m, labeling[m])])], Arcs)
Predicted(labeling) ==
  [r \in 1..NumParts |-> IF \E m \in Arcs : r = PartOf(m, labeling[m]) THEN 1 ELSE 0]

\* C10: when Decode returns a structure, it is the indicator vector of a
\* labeling that satisfies the hard constraints and whose total score is at
\* least that of every labeling that satisfies them; it reports failure only
\* when no labeling satisfies them; and a call changes neither the decoder's
\* configuration nor its inputs.
C10_DecodeIsOptimal ==
  /\ [](decode_status = "ok"
          => \E best \in LegalLabelings :
               /\ predicted_output = Predicted(best)
               /\ \A other \in LegalLabelings :
                    TotalScore(best)[1] >= TotalScore(other)[1])
  /\ [](decode_status = "failed" => LegalLabelings = {})
  /\ [][decode_status' # "idle" => UNCHANGED <<pipe, instance, part_scores>>]_vars

C10_Witness ==
  /\ decode_status = "ok"
  /\ pipe # {}
  /\ Cardinality(LegalLabelings) >= 3
  /\ \E h \in Heads : Len(Siblings(instance, h)) = 3
  /\ \E a \in LegalLabelings : \E b \in LegalLabelings : TotalScore(a) # TotalScore(b)
  /\ \E m \in Arcs : \E l \in Labels :
       /\ predicted_output[PartOf(m, l)] = 1
       /\ \E o \in Labels : part_scores[PartOf(m, o)] > part_scores[PartOf(m, l)]


\* Number of positions of features that hold the id f.
Occurrences(features, f) == Cardinality({j \in 1..Len(features) : features[j] = f})

\* k * amount, in the arithmetic of the weights.
Times(k, amount) == RMul(R(k), amount)

UnlabeledStepEffect(features, eta, iteration, gradient) ==
  /\ Keys(weights') = Keys(weights) \cup {features[j] : j \in 1..Len(features)}
  /\ \A f \in Features :
       SPV_Get(weights', f) =
         RAdd(SPV_Get(weights, f),
              RNeg(Times(Occurrences(features, f), RMul(eta, gradient))))
  /\ use_average =>
       /\ Keys(averaged_weights') =
            Keys(averaged_weights) \cup {features[j] : j \in 1..Len(features)}
       /\ \A f \in Features :
            SPV_Get(averaged_weights', f) =
              RAdd(SPV_Get(averaged_weights, f),
                   Times(Occurrences(features, f), RMul(RMul(R(iteration), eta), gradient)))
  /\ ~use_average => averaged_weights' = averaged_weights
  /\ \A f \in Keys(weights) :
       Occurrences(features, f) = 0 => weights'.values[f] = weights.values[f]
  /\ \A f \in Keys(averaged_weights) :
       Occurrences(features, f) = 0 => averaged_weights'.values[f] = averaged_weights.values[f]
  /\ labeled_weights' = labeled_weights
  /\ averaged_labeled_weights' = averaged_labeled_weights

LabeledStepEffect(features, eta, iteration, label, gradient) ==
  /\ Keys(labeled_weights') =
       Keys(labeled_weights) \cup {features[j] : j \in 1..Len(features)}
  /\ \A f \in Features :
       SLPV_GetCell(labeled_weights', f, label) =
         RAdd(SLPV_GetCell(labeled_weights, f, label),
              RNeg(Times(Occurrences(features, f), RMul(eta, gradient))))
  /\ use_average =>
       \A f \in Features :
         SLPV_GetCell(averaged_labeled_weights', f, label) =
           RAdd(SLPV_GetCell(averaged_labeled_weights, f, label),
                Times(Occurrences(features, f), RMul(RMul(R(iteration), eta), gradient)))
  /\ ~use_average => averaged_labeled_weights' = averaged_labeled_weights
  /\ SLPV_Cells(labeled_weights') =
       SLPV_Cells(labeled_weights) \cup {<<features[j], label>> : j \in 1..Len(features)}
  /\ \A c \in SLPV_Cells(labeled_weights) :
       (c[2] # label \/ Occurrences(features, c[1]) = 0)
         => labeled_weights'.values[c[1]][c[2]] = labeled_weights.values[c[1]][c[2]]
  /\ \A c \in SLPV_Cells(averaged_labeled_weights) :
       (c[2] # label \/ Occurrences(features, c[1]) = 0)
         => /\ c \in SLPV_Cells(averaged_labeled_weights')
            /\ averaged_labeled_weights'.values[c[1]][c[2]] =
                 averaged_labeled_weights.values[c[1]][c[2]]
  /\ weights' = weights
  /\ averaged_weights' = averaged_weights

\* C11: with growth allowed, MakeGradientStep(features, eta, iteration, gradient)
\* lowers the live weight of every id by k * eta * gradient and, when use_average
\* is set, raises its averaged weight by k * iteration * eta * gradient, k being
\* the number of occurrences of the id in features (an absent id counts as 0.0
\* before the step); unlisted unlabeled keys and both labeled stores keep their
\* contents.  MakeLabelGradientStep does the same to the cells of the one given
\* label, and leaves the other labels, the unlisted features and both unlabeled
\* stores as they were.
C11_StepChangesListedCellsOnly ==
  [][/\ (lastOp'.op = "MakeGradientStep" /\ ~weights.growth_stopped)
         => \A eta \in Etas, iteration \in Iterations, gradient \in Gradients :
              MakeGradientStep(lastOp'.features, eta, iteration, gradient)
                => UnlabeledStepEffect(lastOp'.features, eta, iteration, gradient)
     /\ (lastOp'.op = "MakeLabelGradientStep" /\ ~labeled_weights.growth_stopped)
         => \A eta \in Etas, iteration \in Iterations, gradient \in Gradients :
              MakeLabelGradientStep(lastOp'.features, eta, iteration, lastOp'.label, gradient)
                => LabeledStepEffect(lastOp'.features, eta, iteration, lastOp'.label, gradient)
    ]_vars

\* A labeled step that lists feature 1 twice has just moved cell (1, 1) of both
\* labeled stores, with growth allowed and averaging on, while the unlabeled
\* store holds a weight and the labeled store holds a cell the step did not list.
C11_Witness ==
  /\ lastOp.op = "MakeLabelGradientStep"
  /\ lastOp.features = <<1, 1>>
  /\ lastOp.label = 1
  /\ use_average
  /\ ~labeled_weights.growth_stopped
  /\ SLPV_GetCell(labeled_weights, 1, 1) # Zero
  /\ SLPV_GetCell(averaged_labeled_weights, 1, 1) # Zero
  /\ Keys(weights) # {}
  /\ SLPV_Cells(labeled_weights) \ {<<1, 1>>} # {}


\* The live labeled weight of (features[j], label), summed over the positions
\* j, j + 1, ... of features; a pair without a weight counts 0.0.
RECURSIVE CellSum(_, _, _)
CellSum(features, label, j) ==
  IF j > Len(features) THEN Zero
  ELSE RAdd(SLPV_GetCell(labeled_weights, features[j], label), CellSum(features, label, j + 1))

\* C12: after ComputeLabelScores(features, labels) the output vector has one
\* entry per requested label, whatever it held before, and entry k is the sum
\* over the positions of features of the live labeled weight of
\* (features[j], labels[k]), an absent pair and a feature without labeled
\* weights counting 0.0.
C12_LabelScoresAreCellSums ==
  lastOp.op = "ComputeLabelScores"
    => /\ Len(scores) = Len(lastOp.labels)
       /\ \A k \in 1..Len(lastOp.labels) :
            scores[k] = CellSum(lastOp.features, lastOp.labels[k], 1)

\* ComputeLabelScores(<<2, 1>>, <<1, 2>>) has returned: feature 2 has no labeled
\* weights, feature 1 has a weight for label 1 and none for label 2.
C12_Witness ==
  /\ lastOp.op = "ComputeLabelScores"
  /\ lastOp.features = <<2, 1>>
  /\ lastOp.labels = <<1, 2>>
  /\ ~ExistsLabeled(2)
  /\ <<1, 1>> \in SLPV_Cells(labeled_weights)
  /\ <<1, 2>> \notin SLPV_Cells(labeled_weights)
  /\ scores[1] # Zero
  /\ scores[2] = Zero


IsLookup(op) ==
  op.op \in {"Size", "Exists", "ExistsLabeled", "Get", "ComputeScore", "ComputeLabelScores",
             "ComputeLabelScoresWithCache"}

NeverAdded == Features \ ever_added

\* C13: Get, Exists, ExistsLabeled, ComputeScore, ComputeLabelScores and
\* ComputeLabelScoresWithCache leave the four stores as they found them, in
\* either growth mode and for present and absent ids alike: no key appears, no
\* weight and no growth lock changes, Size stays; and an id no gradient step
\* has listed has Exists false and Get 0.0, however many lookups were made.
C13_LookupsAreReadOnly ==
  /\ [][IsLookup(lastOp')
          => /\ UNCHANGED bank
             /\ Size' = Size
             /\ \A f \in Features :
                  /\ Exists(f)' = Exists(f)
                  /\ ExistsLabeled(f)' = ExistsLabeled(f)
                  /\ Get(f)' = Get(f)]_vars
  /\ [](\A f \in NeverAdded : ~Exists(f) /\ Get(f) = Zero)
  /\ []((lastOp.op = "Exists" /\ lastOp.key \in NeverAdded) => lastOp.returned = <<FALSE>>)
  /\ []((lastOp.op = "Get" /\ lastOp.key \in NeverAdded) => lastOp.returned = <<Zero>>)

\* ComputeLabelScoresWithCache(<<2, 1>>, ...) has returned with growth allowed:
\* id 2 was never added and has no labeled weights, id 1 has both kinds.
C13_Witness ==
  /\ lastOp.op = "ComputeLabelScoresWithCache"
  /\ lastOp.features = <<2, 1>>
  /\ Len(lastOp.labels) > 0
  /\ 2 \in NeverAdded
  /\ ~ExistsLabeled(2)
  /\ Exists(1)
  /\ ExistsLabeled(1)
  /\ ~weights.growth_stopped
  /\ ~labeled_weights.growth_stopped


====
